---- MODULE Spec2Model ----
(***************************************************************************)
(* Verification model of SMPyBandits:                                      *)
(*   - the collision models of Environment/CollisionModels.py,             *)
(*   - the change-point detectors of the piecewise-stationary notebook,    *)
(*   - the result accumulators Result and ResultMultiPlayers, and          *)
(*   - the constructor and the indexes of the policy UCBalpha.             *)
(* Players and arms are numbered from 0 as in the Python source.           *)
(***************************************************************************)
EXTENDS Integers, Sequences, FiniteSets, TLC

(***************************************************************************)
(* Bounds of the model.                                                    *)
(***************************************************************************)
MaxPlayers == 3
NbArms == 2
MaxRounds == 2
DistGrid == 2
MaxHorizon == 4
MaxSample == 4
MaxWindow == 3
MaxM == 2
MaxEvents == 2
MaxDirect == 2
MaxDelta == 2
MaxStores == 2
MaxPulls == 2

\* arms[arm].draw(t): the collision models never inspect a reward, so each
\* draw returns a positive value that identifies the arm and the time step
Draw(arm, t) == 1 + arm + NbArms * t

VARIABLES
    nbPlayers,      \* len(players)
    hasHC,          \* hasHC[i]: hasattr(players[i], 'handleCollision')
    choices,        \* choices[i]: arm chosen by player i in the last round
    rewards,        \* rewards[i]
    pulls,          \* pulls[i][arm]
    collisions,     \* collisions[arm]
    calls,          \* callbacks made on the players during the last round
    drawn,          \* drawn[arm]: number of arms[arm].draw(t) calls of the last round
    raised,         \* TRUE when the last call ended with an exception
    model,          \* the collision model the simulation is configured with
    round,          \* the time step t: number of rounds resolved so far
    pre,            \* rewards, pulls and collisions as they were when the last round started
    distances,      \* distance vector used by the last closerUserGetsReward round
    distArg,        \* the distances argument closerUserGetsReward is configured with
    distCache,      \* lru_cache of random_distances: nbPlayers -> vector
    npElementwise,  \* numpy compares an array with a string element by element
    rdDraws,        \* rdDraws[n]: number of np.random.random_sample(n) calls made
    rdFirst,        \* rdFirst[n]: what the first random_distances(n) returned
    rdLast,         \* the argument and the result of the last random_distances call
    all_data,       \* the observation stream given to the detectors
    all_data2,      \* a second stream of the same length, for comparisons
    det,            \* name of the detector in use
    detT,           \* the argument t of the last call, -1 before the first call
    detParams,      \* the other arguments of the detector
    detResult,      \* what the last call returned on all_data
    detResult2,     \* what the same call returns on all_data2
    detPrev,        \* what the call before the last one returned on all_data
    detTrace,       \* the statistics the last call computed on all_data
    detH,           \* the threshold the last call used (None: the default b of Monitored)
    detError,       \* TRUE when the last call raised an error
    fn,             \* name of the function or constructor called on its own
    fnArgs,         \* its arguments
    fnDone,         \* TRUE once it has been called
    fnResult,       \* what the call returned
    resArgs,        \* the arguments the result accumulator was constructed with
    res,            \* the Result or ResultMultiPlayers object
    resLast,        \* the time of the last store call, the index it used, its outcome
    resCount        \* resCount[time]: number of store calls made with that time

cmVars == <<nbPlayers, hasHC, choices, rewards, pulls, collisions, calls, drawn,
            raised, model, round, pre, distances, distArg, distCache,
            npElementwise, rdDraws, rdFirst, rdLast>>
cdVars == <<all_data, all_data2, det, detT, detParams, detResult, detResult2, detPrev,
            detTrace, detH, detError>>
fnVars == <<fn, fnArgs, fnDone, fnResult>>
resVars == <<resArgs, res, resLast, resCount>>
vars == <<cmVars, cdVars, fnVars, resVars>>

Players == 0 .. (nbPlayers - 1)
Arms == 0 .. (NbArms - 1)

\* np.nonzero(choices == arm)[0]
players_who_chose_it(ch, arm) == {i \in DOMAIN ch : ch[i] = arm}

\* np.sum(choices == arm), np.size(players_who_chose_it)
occupancy(ch, arm) == Cardinality(players_who_chose_it(ch, arm))

\* the arrays the caller hands to a collision model, with the observation log
RoundState == [rewards |-> rewards, pulls |-> pulls, collisions |-> collisions,
               calls |-> <<>>, drawn |-> [a \in Arms |-> 0], raised |-> FALSE]

\* rewards[i] = arms[arm].draw(t); players[i].getReward(arm, rewards[i]); pulls[i, arm] += 1
RewardPlayer(st, i, arm) ==
    [st EXCEPT !.rewards[i] = Draw(arm, round),
               !.drawn[arm] = @ + 1,
               !.calls = Append(@, <<"getReward", i, arm, Draw(arm, round)>>),
               !.pulls[i][arm] = @ + 1]

\* mutant: the player that is not rewarded draws the arm all the same
NotifyCollision_Draws(st, j, arm) == RewardPlayer(st, j, arm)

\* the notification of a player that is not rewarded
NotifyCollision(st, j, arm) ==
    IF hasHC[j]
    THEN [st EXCEPT !.calls = Append(@, <<"handleCollision", j, arm, 0>>)]
    ELSE [st EXCEPT !.calls = Append(@, <<"getReward", j, arm, 0>>)]

----------------------------------------------------------------------------
(***************************************************************************)
(* onlyUniqUserGetsReward                                                  *)
(***************************************************************************)
\* mutant: the occupancy is not decreased by one
nbCollisions_Occupancy(ch) == [arm \in Arms |-> occupancy(ch, arm)]

nbCollisions(ch) == [arm \in Arms |-> occupancy(ch, arm) - 1]

\* mutant: the rewards entry of a player in a collision is reset to 0
OnlyUniqPlayer_ResetsReward(st, ch, i) ==
    IF nbCollisions(ch)[ch[i]] < 1
    THEN RewardPlayer(st, i, ch[i])
    ELSE NotifyCollision([st EXCEPT !.collisions[ch[i]] = @ + 1, !.rewards[i] = 0],
                         i, ch[i])

\* the body of the loop over the players
OnlyUniqPlayer(st, ch, i) ==
    IF nbCollisions(ch)[ch[i]] < 1
    THEN RewardPlayer(st, i, ch[i])
    ELSE NotifyCollision([st EXCEPT !.collisions[ch[i]] = @ + 1], i, ch[i])

RECURSIVE OnlyUniqLoop(_, _, _)
OnlyUniqLoop(st, ch, i) ==
    IF i >= nbPlayers THEN st
    ELSE OnlyUniqLoop(OnlyUniqPlayer(st, ch, i), ch, i + 1)

onlyUniqUserGetsReward(st, ch) == OnlyUniqLoop(st, ch, 0)

(***************************************************************************)
(* noCollision                                                             *)
(***************************************************************************)
RECURSIVE NoCollisionLoop(_, _, _)
NoCollisionLoop(st, ch, i) ==
    IF i >= nbPlayers THEN st
    ELSE NoCollisionLoop(RewardPlayer(st, i, ch[i]), ch, i + 1)

\* mutant: the players that share an arm are not rewarded
noCollision_OnlyUniq(st, ch) == onlyUniqUserGetsReward(st, ch)

noCollision(st, ch) == NoCollisionLoop(st, ch, 0)

(***************************************************************************)
(* rewardIsSharedUniformly                                                 *)
(***************************************************************************)
\* for j in players_who_chose_it: if i != j: notify j
RECURSIVE NotifyOthers(_, _, _, _, _)
NotifyOthers(st, ch, arm, i, j) ==
    IF j >= nbPlayers THEN st
    ELSE IF ch[j] = arm /\ j # i
         THEN NotifyOthers(NotifyCollision(st, j, arm), ch, arm, i, j + 1)
         ELSE NotifyOthers(st, ch, arm, i, j + 1)

\* the body of the loop for an occupied arm once player i has been selected
ServeArm(st, ch, arm, i) ==
    NotifyOthers(RewardPlayer(st, i, arm), ch, arm, i, 0)

\* mutant: the collision counter is updated before the test for an empty arm
SharedArm_NoSkip(st, ch, pick, arm) ==
    LET st1 == [st EXCEPT !.collisions[arm] = @ + occupancy(ch, arm) - 1]
    IN  IF occupancy(ch, arm) > 0 THEN ServeArm(st1, ch, arm, pick[arm]) ELSE st1

\* pick[arm] is the outcome of np.random.choice(players_who_chose_it)
SharedArm(st, ch, pick, arm) ==
    IF occupancy(ch, arm) > 0
    THEN ServeArm([st EXCEPT !.collisions[arm] = @ + occupancy(ch, arm) - 1],
                  ch, arm, pick[arm])
    ELSE st

RECURSIVE SharedLoop(_, _, _, _)
SharedLoop(st, ch, pick, arm) ==
    IF arm >= NbArms THEN st
    ELSE SharedLoop(SharedArm(st, ch, pick, arm), ch, pick, arm + 1)

rewardIsSharedUniformly(st, ch, pick) == SharedLoop(st, ch, pick, 0)

(***************************************************************************)
(* closerUserGetsReward                                                    *)
(* A distance is a fraction <<numerator, denominator>>.                    *)
(***************************************************************************)
DistLess(x, y) == x[1] * y[2] < y[1] * x[2]
DistEq(x, y) == x[1] * y[2] = y[1] * x[2]

\* np.linspace(start, stop, num, endpoint) for integers start and stop: the
\* num values start + i * step, i = 0 .. num - 1, as a sequence of fractions
linspace(start, stop, num, endpoint) ==
    LET div == IF endpoint THEN num - 1 ELSE num
    IN  [k \in 1 .. num |-> <<(start * div) + ((k - 1) * (stop - start)), div>>]

\* mutant: the equally spaced values are given in decreasing order
UniformDistances_Decreasing(n) ==
    [i \in 0 .. (n - 1) |-> linspace(0, 1, n + 1, FALSE)[n + 1 - i]]

\* np.linspace(0, 1, n + 1, endpoint=False)[1:]
UniformDistances(n) ==
    [i \in 0 .. (n - 1) |-> linspace(0, 1, n + 1, FALSE)[i + 2]]

\* np.random.random_sample(nbPlayers): values of [0, 1), here on a grid
RandomSamples(n) == [0 .. (n - 1) -> {<<k, DistGrid>> : k \in 0 .. (DistGrid - 1)}]

\* the arrays a caller can pass explicitly: numbers in [0, 1], on the grid
DistanceArrays(n) == [0 .. (n - 1) -> {<<k, DistGrid>> : k \in 0 .. DistGrid}]

\* mutant: the vector is drawn again at every call
random_distances_NoCache(cache, n, sample) ==
    [k \in (DOMAIN cache) \cup {n} |-> IF k = n THEN sample ELSE cache[k]]

\* random_distances under lru_cache: the cache after a call for n players,
\* sample being what np.random.random_sample returns if it is called
random_distances(cache, n, sample) ==
    IF n \in DOMAIN cache THEN cache
    ELSE [k \in (DOMAIN cache) \cup {n} |-> IF k = n THEN sample ELSE cache[k]]

\* the wrapper lru_cache runs the body of random_distances only on a miss
CacheMiss(cache, n) == n \notin DOMAIN cache

\* "distances == 'uniform'" for an array argument.  numpy up to 1.24 gives
\* the scalar False (with a FutureWarning); numpy from 1.25 on compares
\* element by element, and the truth value of an array of more than one
\* element raises ValueError in the if of the resolution.
TruthValueError(arg, elementwise) ==
    elementwise /\ arg.kind = "array" /\ Cardinality(DOMAIN arg.vec) > 1

\* the vector in use after the resolution of the distances argument
ResolveDistances(arg, cache, n) ==
    IF arg.kind \in {"None", "uniform"} THEN UniformDistances(n)
    ELSE IF arg.kind = "random" THEN cache[n]
    ELSE arg.vec

\* np.min(distances[players_who_chose_it])
smaller_distance(dist, occ) ==
    CHOOSE m \in {dist[i] : i \in occ} : \A i \in occ : ~ DistLess(dist[i], m)

\* the occupants at the minimal distance
AtMinimum(dist, occ) == {i \in occ : DistEq(dist[i], smaller_distance(dist, occ))}

\* players_who_chose_it[np.argmin(distancesChosen)]: first index at the minimum
ArgminPlayer(dist, occ) ==
    CHOOSE i \in AtMinimum(dist, occ) : \A j \in AtMinimum(dist, occ) : i <= j

\* The body of the loop over the arms.  With more than one occupant at the
\* minimal distance the code calls np.random.choice on the 2-dimensional
\* result of np.argwhere, which raises ValueError ("a must be 1-dimensional"):
\* the call ends there, after collisions[arm] was increased.
CloserArm(st, ch, dist, arm) ==
    LET occ == players_who_chose_it(ch, arm)
        st1 == [st EXCEPT !.collisions[arm] = @ + Cardinality(occ) - 1]
    IN  IF Cardinality(occ) > 0
        THEN IF Cardinality(AtMinimum(dist, occ)) = 1
             THEN ServeArm(st1, ch, arm, ArgminPlayer(dist, occ))
             ELSE [st1 EXCEPT !.raised = TRUE]
        ELSE st

RECURSIVE CloserLoop(_, _, _, _)
CloserLoop(st, ch, dist, arm) ==
    IF arm >= NbArms \/ st.raised THEN st
    ELSE CloserLoop(CloserArm(st, ch, dist, arm), ch, dist, arm + 1)

closerUserGetsReward(st, ch, dist) == CloserLoop(st, ch, dist, 0)

----------------------------------------------------------------------------
(***************************************************************************)
(* Numbers of the change-point detectors.                                  *)
(* A float is modelled by a fraction <<n, d>> in lowest terms with d > 0;  *)
(* <<1, 0>> is +inf, <<-1, 0>> is -inf and <<0, 0>> is nan, with numpy's   *)
(* rules for them.  np.log is evaluated to three decimals (LnMilli); the   *)
(* other operations are exact.                                             *)
(***************************************************************************)
NaN == <<0, 0>>
PosInf == <<1, 0>>
NegInf == <<0 - 1, 0>>
Zero == <<0, 1>>
One == <<1, 1>>
\* the Python value None of an optional argument
None == <<0, 0 - 1>>

IsNaN(x) == x = NaN
IsFinite(x) == x[2] > 0

Abs(n) == IF n < 0 THEN 0 - n ELSE n
Min(a, b) == IF a < b THEN a ELSE b

RECURSIVE Gcd(_, _)
Gcd(a, b) == IF b = 0 THEN a ELSE Gcd(b, a % b)

\* the fraction n / d (d # 0) in lowest terms
Frac(n, d) ==
    LET g == Gcd(Abs(n), Abs(d))
    IN  IF d < 0 THEN <<0 - (n \div g), 0 - (d \div g)>> ELSE <<n \div g, d \div g>>

Num(n) == <<n, 1>>

RNeg(x) == <<0 - x[1], x[2]>>

RAdd(x, y) ==
    IF IsNaN(x) \/ IsNaN(y) THEN NaN
    ELSE IF IsFinite(x) /\ IsFinite(y)
         THEN LET g == Gcd(x[2], y[2])
              IN  Frac(x[1] * (y[2] \div g) + y[1] * (x[2] \div g), (x[2] \div g) * y[2])
    ELSE IF IsFinite(x) THEN y
    ELSE IF IsFinite(y) THEN x
    ELSE IF x = y THEN x ELSE NaN

RSub(x, y) == RAdd(x, RNeg(y))

Sign(n) == IF n > 0 THEN 1 ELSE IF n < 0 THEN 0 - 1 ELSE 0

RMul(x, y) ==
    IF IsNaN(x) \/ IsNaN(y) THEN NaN
    ELSE IF IsFinite(x) /\ IsFinite(y)
         THEN LET g1 == Gcd(Abs(x[1]), y[2])
                  g2 == Gcd(Abs(y[1]), x[2])
              IN  Frac((x[1] \div g1) * (y[1] \div g2), (x[2] \div g2) * (y[2] \div g1))
    ELSE <<Sign(x[1]) * Sign(y[1]), 0>>

\* division of numpy floats: x / 0 is +-inf or nan, x / inf is 0
RInv(y) ==
    IF IsNaN(y) THEN NaN
    ELSE IF ~ IsFinite(y) THEN Zero
    ELSE IF y[1] = 0 THEN PosInf
    ELSE Frac(y[2], y[1])

RDiv(x, y) ==
    IF IsFinite(y) /\ y[1] = 0 THEN <<Sign(x[1]), 0>>
    ELSE IF ~ IsFinite(x) /\ ~ IsFinite(y) THEN NaN
    ELSE RMul(x, RInv(y))

\* x < y on floats: False as soon as one side is nan
RLt(x, y) ==
    IF IsNaN(x) \/ IsNaN(y) THEN FALSE
    ELSE IF IsFinite(x) /\ IsFinite(y)
         THEN LET g == Gcd(x[2], y[2])
              IN  x[1] * (y[2] \div g) < y[1] * (x[2] \div g)
    ELSE IF IsFinite(x) THEN y = PosInf
    ELSE IF IsFinite(y) THEN x = NegInf
    ELSE x = NegInf /\ y = PosInf

RGt(x, y) == RLt(y, x)
RLe(x, y) == ~ IsNaN(x) /\ ~ IsNaN(y) /\ ~ RLt(y, x)
RGe(x, y) == RLe(y, x)

\* the Python builtins max(a, b) and min(a, b): b is returned only when it
\* compares strictly above (below) a, so max(0, nan) is 0
PyMax(a, b) == IF RGt(b, a) THEN b ELSE a
PyMin(a, b) == IF RLt(b, a) THEN b ELSE a

RAbs(x) == <<Abs(x[1]), x[2]>>

RECURSIVE RPow(_, _)
RPow(x, n) == IF n = 0 THEN One ELSE RMul(x, RPow(x, n - 1))

\* np.floor and np.ceil of a finite fraction, as integers
Floor(x) == x[1] \div x[2]
Ceil(x) == 0 - ((0 - x[1]) \div x[2])

\* round(1000 * ln(n)) for n = 1 .. 128
LnTable == <<
    0, 693, 1099, 1386, 1609, 1792, 1946, 2079, 2197, 2303, 2398, 2485,
    2565, 2639, 2708, 2773, 2833, 2890, 2944, 2996, 3045, 3091, 3135, 3178,
    3219, 3258, 3296, 3332, 3367, 3401, 3434, 3466, 3497, 3526, 3555, 3584,
    3611, 3638, 3664, 3689, 3714, 3738, 3761, 3784, 3807, 3829, 3850, 3871,
    3892, 3912, 3932, 3951, 3970, 3989, 4007, 4025, 4043, 4060, 4078, 4094,
    4111, 4127, 4143, 4159, 4174, 4190, 4205, 4220, 4234, 4248, 4263, 4277,
    4290, 4304, 4317, 4331, 4344, 4357, 4369, 4382, 4394, 4407, 4419, 4431,
    4443, 4454, 4466, 4477, 4489, 4500, 4511, 4522, 4533, 4543, 4554, 4564,
    4575, 4585, 4595, 4605, 4615, 4625, 4635, 4644, 4654, 4663, 4673, 4682,
    4691, 4700, 4710, 4718, 4727, 4736, 4745, 4754, 4762, 4771, 4779, 4787,
    4796, 4804, 4812, 4820, 4828, 4836, 4844, 4852 >>

\* 1000 * ln(n), rounded, for the integers the detectors take the logarithm
\* of: ln(10^6) = 13.8155 and ln(10^6 - 1) = 13.8155
LnMilli(n) == IF n >= 999999 /\ n <= 1000000 THEN 13816 ELSE LnTable[n]

\* np.log: log(0) is -inf, the log of a negative number is nan
Ln(x) ==
    IF IsNaN(x) \/ x = NegInf THEN NaN
    ELSE IF x = PosInf THEN PosInf
    ELSE IF x[1] < 0 THEN NaN
    ELSE IF x[1] = 0 THEN NegInf
    ELSE Frac(LnMilli(x[1]) - LnMilli(x[2]), 1000)

\* scipy.special.comb(N, k)
RECURSIVE comb(_, _)
comb(N, k) ==
    IF k < 0 \/ k > N THEN 0
    ELSE IF k = 0 THEN 1
    ELSE (comb(N - 1, k - 1) * N) \div k

RECURSIVE SeqSum(_)
SeqSum(s) == IF s = <<>> THEN 0 ELSE Head(s) + SeqSum(Tail(s))

\* the Python slice s[a:b] for 0 <= a
Slice(s, a, b) == SubSeq(s, a + 1, Min(b, Len(s)))

\* np.mean of integer samples: nan on an empty slice
Mean(s) == IF s = <<>> THEN NaN ELSE Frac(SeqSum(s), Len(s))

----------------------------------------------------------------------------
(***************************************************************************)
(* Monitored                                                               *)
(***************************************************************************)
NB_ARMS == 1

\* mutant: the comparison with the threshold is not strict
MonitoredExceeds_NonStrict(diff, window_size, horizon, threshold_b) ==
    IF threshold_b = None
    THEN LET b2 == RMul(Frac(window_size, 2),
                        Ln(Num(2 * NB_ARMS * horizon * horizon)))
         IN  RGe(b2, Zero) /\ RGe(Num(diff * diff), b2)
    ELSE RGe(Num(Abs(diff)), threshold_b)

\* abs(diff) > threshold_b.  The default threshold is
\* np.sqrt(window_size/2 * np.log(2 * NB_ARMS * horizon**2)): the comparison
\* with a square root is made on the squares, and is False when the square
\* root is nan.
MonitoredExceeds(diff, window_size, horizon, threshold_b) ==
    IF threshold_b = None
    THEN LET b2 == RMul(Frac(window_size, 2),
                        Ln(Num(2 * NB_ARMS * horizon * horizon)))
         IN  RGe(b2, Zero) /\ RGt(Num(diff * diff), b2)
    ELSE RGt(Num(Abs(diff)), threshold_b)

\* mutant: the slice all_data[:t + 1] reads the sample of index t
Monitored_LooksAhead(all, t, window_size, threshold_b) ==
    LET data == Slice(all, 0, t + 1)
        last_w_data == Slice(data, Len(data) - window_size, Len(data))
        sum_first_half == SeqSum(Slice(last_w_data, 0, window_size \div 2))
        sum_second_half == SeqSum(Slice(last_w_data, window_size \div 2, window_size))
    IN  IF Len(data) < window_size
        THEN [result |-> FALSE, trace |-> <<>>, h |-> threshold_b, raised |-> FALSE]
        ELSE [result |-> MonitoredExceeds(sum_first_half - sum_second_half,
                                          window_size, Len(all), threshold_b),
              trace |-> <<sum_first_half, sum_second_half>>,
              h |-> threshold_b, raised |-> FALSE]

\* mutant: the test for a full window is off by one sample
Monitored_ShortWindow(all, t, window_size, threshold_b) ==
    LET data == Slice(all, 0, t)
        first == IF Len(data) > window_size THEN Len(data) - window_size ELSE 0
        last_w_data == Slice(data, first, Len(data))
        sum_first_half == SeqSum(Slice(last_w_data, 0, window_size \div 2))
        sum_second_half == SeqSum(Slice(last_w_data, window_size \div 2, window_size))
    IN  IF Len(data) < window_size - 1
        THEN [result |-> FALSE, trace |-> <<>>, h |-> threshold_b, raised |-> FALSE]
        ELSE [result |-> MonitoredExceeds(sum_first_half - sum_second_half,
                                          window_size, Len(all), threshold_b),
              trace |-> <<sum_first_half, sum_second_half>>,
              h |-> threshold_b, raised |-> FALSE]

Monitored(all, t, window_size, threshold_b) ==
    LET data == Slice(all, 0, t)
        last_w_data == Slice(data, Len(data) - window_size, Len(data))
        sum_first_half == SeqSum(Slice(last_w_data, 0, window_size \div 2))
        sum_second_half == SeqSum(Slice(last_w_data, window_size \div 2, window_size))
    IN  IF Len(data) < window_size
        THEN [result |-> FALSE, trace |-> <<>>, h |-> threshold_b, raised |-> FALSE]
        ELSE [result |-> MonitoredExceeds(sum_first_half - sum_second_half,
                                          window_size, Len(all), threshold_b),
              trace |-> <<sum_first_half, sum_second_half>>,
              h |-> threshold_b, raised |-> FALSE]

(***************************************************************************)
(* CUSUM and PHT                                                           *)
(***************************************************************************)
EPSILON == <<1, 2>>
MAX_NB_RANDOM_EVENTS == 1

\* log(c * comb(M, k) * (2 * epsilon)**M + 1)
C1Term(c, M, k, epsilon) ==
    Ln(RAdd(RMul(RMul(c, Num(comb(M, k))), RPow(RMul(Num(2), epsilon), M)), One))

compute_h__CUSUM(horizon, verbose, M, max_nb_random_events, nbArms, epsilon) ==
    LET T == IF horizon > 1 THEN horizon ELSE 1
        UpsilonT == IF max_nb_random_events > 1 THEN max_nb_random_events ELSE 1
        C1_minus == C1Term(RDiv(RMul(Num(4), epsilon),
                                RPow(RSub(One, epsilon), 2)),
                           M, Floor(RMul(RMul(Num(2), epsilon), Num(M))), epsilon)
        C1_plus == C1Term(RDiv(RMul(Num(4), epsilon),
                               RPow(RAdd(One, epsilon), 2)),
                          M, Ceil(RMul(RMul(Num(2), epsilon), Num(M))), epsilon)
        C1min == PyMin(C1_minus, C1_plus)
        C1 == IF C1min = Zero THEN One ELSE C1min
    IN  RMul(RInv(C1), Ln(Frac(T, UpsilonT)))

\* threshold_h = compute_h__CUSUM(horizon, M, 1, epsilon=epsilon): the
\* positional arguments bind verbose to M and the parameter M to 1
DefaultThresholdH(horizon, M, epsilon, threshold_h) ==
    IF threshold_h = None
    THEN compute_h__CUSUM(horizon, M, 1, MAX_NB_RANDOM_EVENTS, 1, epsilon)
    ELSE threshold_h

\* gp, gm = max(0, gp + sp), max(0, gm + sm) for the mean ref and the sample y_k
GUpdate(g, ref, y_k, epsilon) ==
    <<PyMax(Zero, RAdd(g[1], RSub(RSub(ref, Num(y_k)), epsilon))),
      PyMax(Zero, RAdd(g[2], RSub(RSub(Num(y_k), ref), epsilon)))>>

\* the loop of CUSUM from index k on; trace records gp, gm after every sample
RECURSIVE CusumLoop(_, _, _, _, _, _, _, _)
CusumLoop(data, k, g, u0hat, epsilon, M, h, trace) ==
    IF k >= Len(data) THEN [result |-> FALSE, trace |-> trace]
    ELSE IF k <= M THEN CusumLoop(data, k + 1, g, u0hat, epsilon, M, h, Append(trace, g))
    ELSE LET g1 == GUpdate(g, u0hat, data[k + 1], epsilon)
         IN  IF RGe(PyMax(g1[1], g1[2]), h)
             THEN [result |-> TRUE, trace |-> Append(trace, g1)]
             ELSE CusumLoop(data, k + 1, g1, u0hat, epsilon, M, h, Append(trace, g1))

CUSUM(all, t, epsilon, M, threshold_h) ==
    LET data == Slice(all, 0, t)
        h == DefaultThresholdH(Len(all), M, epsilon, threshold_h)
        u0hat == Mean(Slice(data, 0, M))
        r == CusumLoop(data, 0, <<Zero, Zero>>, u0hat, epsilon, M, h, <<>>)
    IN  [result |-> r.result, trace |-> r.trace, h |-> h, raised |-> FALSE]

RECURSIVE PhtLoop(_, _, _, _, _, _)
PhtLoop(data, k, g, epsilon, h, trace) ==
    IF k >= Len(data) THEN [result |-> FALSE, trace |-> trace]
    ELSE LET y_k_hat == Mean(Slice(data, 0, k))
             g1 == GUpdate(g, y_k_hat, data[k + 1], epsilon)
         IN  IF RGe(PyMax(g1[1], g1[2]), h)
             THEN [result |-> TRUE, trace |-> Append(trace, g1)]
             ELSE PhtLoop(data, k + 1, g1, epsilon, h, Append(trace, g1))

\* mutant: the scan starts over from the two last visible samples
PHT_Restarts(all, t, epsilon, M, threshold_h) ==
    LET data == Slice(all, IF t > 2 THEN t - 2 ELSE 0, t)
        h == DefaultThresholdH(Len(all), M, epsilon, threshold_h)
        r == PhtLoop(data, 0, <<Zero, Zero>>, epsilon, h, <<>>)
    IN  [result |-> r.result, trace |-> r.trace, h |-> h, raised |-> FALSE]

PHT(all, t, epsilon, M, threshold_h) ==
    LET data == Slice(all, 0, t)
        h == DefaultThresholdH(Len(all), M, epsilon, threshold_h)
        r == PhtLoop(data, 0, <<Zero, Zero>>, epsilon, h, <<>>)
    IN  [result |-> r.result, trace |-> r.trace, h |-> h, raised |-> FALSE]

(***************************************************************************)
(* GaussianGLR and BernoulliGLR                                            *)
(***************************************************************************)
\* log((2 * t_m_t0 * sqrt(t_m_t0 + 2)) / delta) with delta = 1.0 / T, taken
\* as log(2 * t_m_t0 * T) + log(t_m_t0 + 2) / 2
compute_c__GLR(t0, t, horizon) ==
    LET T == IF horizon > 1 THEN horizon ELSE 1
        t_m_t0 == Abs(t - t0)
        c == RMul(RMul(RAdd(One, Frac(1, t_m_t0 + 1)), Num(2)),
                  RAdd(Ln(Num(2 * t_m_t0 * T)), RDiv(Ln(Num(t_m_t0 + 2)), Num(2))))
    IN  IF RLt(c, Zero) /\ ~ IsFinite(c) /\ ~ IsNaN(c) THEN PosInf ELSE c

sig2x == <<1, 4>>

\* mutant: the means are added instead of subtracted
klGauss_Sum(x, y) == RDiv(RPow(RAdd(x, y), 2), RMul(Num(2), sig2x))

klGauss(x, y) == RDiv(RPow(RSub(x, y), 2), RMul(Num(2), sig2x))

\* eps = 1e-6
eps == <<1, 1000000>>

\* x * L for a fraction x of [0, 1] and L in thousandths, in thousandths
MulMilli(x, L) ==
    IF 2 * x[1] > x[2] THEN L - (((x[2] - x[1]) * L) \div x[2])
    ELSE (x[1] * L) \div x[2]

\* 1000 * (log(x) - log(y)) for log(x / y)
LnRatioMilli(x, y) ==
    (LnMilli(x[1]) - LnMilli(x[2])) - (LnMilli(y[1]) - LnMilli(y[2]))

klBern(x0, y0) ==
    LET x == PyMin(PyMax(x0, eps), RSub(One, eps))
        y == PyMin(PyMax(y0, eps), RSub(One, eps))
    IN  Frac(MulMilli(x, LnRatioMilli(x, y))
               + MulMilli(RSub(One, x), LnRatioMilli(RSub(One, x), RSub(One, y))),
             1000)

kl(name, x, y) == IF name = "GaussianGLR" THEN klGauss(x, y) ELSE klBern(x, y)

\* the loop over s of both GLR tests; trace records the statistics glr
RECURSIVE GlrLoop(_, _, _, _, _, _)
GlrLoop(name, data, t, s, h, trace) ==
    IF s >= t - 1 THEN [result |-> FALSE, trace |-> trace]
    ELSE LET this_kl == kl(name, Mean(Slice(data, s + 1, t + 1)), Mean(Slice(data, 0, s + 1)))
             glr == RMul(Frac((s + 1) * (t - s), t + 1), this_kl)
         IN  IF RGe(glr, h)
             THEN [result |-> TRUE, trace |-> Append(trace, glr)]
             ELSE GlrLoop(name, data, t, s + 1, h, Append(trace, glr))

GLR(name, all, t, threshold_h) ==
    LET data == Slice(all, 0, t)
        h == IF threshold_h = None THEN compute_c__GLR(0, t, Len(all)) ELSE threshold_h
        r == GlrLoop(name, data, t, 0, h, <<>>)
    IN  [result |-> r.result, trace |-> r.trace, h |-> h, raised |-> FALSE]

GaussianGLR(all, t, threshold_h) == GLR("GaussianGLR", all, t, threshold_h)
BernoulliGLR(all, t, threshold_h) == GLR("BernoulliGLR", all, t, threshold_h)

----------------------------------------------------------------------------
(***************************************************************************)
(* The collision engine as a state machine.  A simulation is configured    *)
(* with its players, one collision model and, for closerUserGetsReward,    *)
(* one distances argument; every round calls the model on the caller's     *)
(* arrays, which the model mutates in place.                               *)
(***************************************************************************)
CollisionModelNames ==
    {"onlyUniqUserGetsReward", "noCollision", "rewardIsSharedUniformly",
     "closerUserGetsReward"}

NoDistArg == [kind |-> "None", vec |-> <<>>]

DistanceArgs(n) ==
    {[kind |-> k, vec |-> <<>>] : k \in {"None", "uniform", "random"}}
        \cup {[kind |-> "array", vec |-> v] : v \in DistanceArrays(n)}

\* no detector has been called
IdleCD ==
    /\ detT = 0 - 1
    /\ detResult = FALSE
    /\ detResult2 = FALSE
    /\ detPrev = FALSE
    /\ detTrace = <<>>
    /\ detH = None
    /\ detError = FALSE

\* no function is called on its own
IdleFn ==
    /\ fn = "none"
    /\ fnArgs = <<>>
    /\ fnDone = FALSE
    /\ fnResult = <<>>

\* no result accumulator is in use
NoStore == [time |-> 0 - 1, index |-> 0 - 1, raised |-> FALSE]

IdleRes ==
    /\ resArgs = [name |-> "none"]
    /\ res = <<>>
    /\ resLast = NoStore
    /\ resCount = <<>>

\* random_distances has not been called
NoReturn == [n |-> 0, vec |-> <<>>]

\* no round has been played with the given configuration
IdleCM ==
    /\ choices = [i \in 0 .. (nbPlayers - 1) |-> 0]
    /\ rewards = [i \in 0 .. (nbPlayers - 1) |-> 0]
    /\ pulls = [i \in 0 .. (nbPlayers - 1) |-> [a \in Arms |-> 0]]
    /\ collisions = [a \in Arms |-> 0]
    /\ calls = <<>>
    /\ drawn = [a \in Arms |-> 0]
    /\ raised = FALSE
    /\ round = 0
    /\ pre = [rewards |-> rewards, pulls |-> pulls, collisions |-> collisions]
    /\ distances = UniformDistances(nbPlayers)
    /\ distCache = <<>>
    /\ rdDraws = [n \in 1 .. (MaxPlayers + MaxDirect) |-> 0]
    /\ rdFirst = <<>>
    /\ rdLast = NoReturn

Init ==
    /\ nbPlayers \in 1 .. MaxPlayers
    /\ hasHC \in [0 .. (nbPlayers - 1) -> BOOLEAN]
    /\ model \in CollisionModelNames
    /\ distArg \in DistanceArgs(nbPlayers)
    /\ model # "closerUserGetsReward" => distArg = NoDistArg
    /\ npElementwise \in BOOLEAN
    /\ distArg.kind # "array" => npElementwise = FALSE
    /\ IdleCM
    /\ all_data = <<>>
    /\ all_data2 = <<>>
    /\ det = "none"
    /\ detParams = <<>>
    /\ IdleCD
    /\ IdleFn
    /\ IdleRes

\* the state after a call of the collision model on the choices ch
Commit(ch, st) ==
    /\ choices' = ch
    /\ rewards' = st.rewards
    /\ pulls' = st.pulls
    /\ collisions' = st.collisions
    /\ calls' = st.calls
    /\ drawn' = st.drawn
    /\ raised' = st.raised
    /\ round' = round + 1
    /\ pre' = [rewards |-> rewards, pulls |-> pulls, collisions |-> collisions]
    /\ UNCHANGED <<nbPlayers, hasHC, model, distArg, npElementwise>>
    /\ UNCHANGED cdVars
    /\ UNCHANGED fnVars
    /\ UNCHANGED resVars

\* an exception ends the simulation
CanPlay(name) == model = name /\ round < MaxRounds /\ ~ raised

Occupied(ch) == {a \in Arms : occupancy(ch, a) > 0}

RoundOnlyUniq ==
    /\ CanPlay("onlyUniqUserGetsReward")
    /\ \E ch \in [Players -> Arms] :
          Commit(ch, onlyUniqUserGetsReward(RoundState, ch))
    /\ UNCHANGED <<distances, distCache, rdDraws, rdFirst, rdLast>>

RoundNoCollision ==
    /\ CanPlay("noCollision")
    /\ \E ch \in [Players -> Arms] :
          Commit(ch, noCollision(RoundState, ch))
    /\ UNCHANGED <<distances, distCache, rdDraws, rdFirst, rdLast>>

RoundShared ==
    /\ CanPlay("rewardIsSharedUniformly")
    /\ \E ch \in [Players -> Arms] :
       \E pick \in [Arms -> Players] :
          /\ \A a \in Arms : IF a \in Occupied(ch) THEN ch[pick[a]] = a ELSE pick[a] = 0
          /\ Commit(ch, rewardIsSharedUniformly(RoundState, ch, pick))
    /\ UNCHANGED <<distances, distCache, rdDraws, rdFirst, rdLast>>

\* what a call random_distances(n) that leaves the cache as cache adds to
\* the record of the calls
RandomDistancesCalled(n, cache) ==
    /\ rdDraws' = [rdDraws EXCEPT ![n] = IF CacheMiss(distCache, n) THEN @ + 1 ELSE @]
    /\ rdFirst' = IF n \in DOMAIN rdFirst THEN rdFirst
                  ELSE [k \in (DOMAIN rdFirst) \cup {n} |->
                           IF k = n THEN cache[n] ELSE rdFirst[k]]
    /\ rdLast' = [n |-> n, vec |-> cache[n]]

\* the sample np.random.random_sample would return is only drawn on a miss
SampleIsUsed(n, sample, used) ==
    used \/ sample = [i \in 0 .. (n - 1) |-> <<0, DistGrid>>]

RoundCloser ==
    /\ CanPlay("closerUserGetsReward")
    /\ \E sample \in RandomSamples(nbPlayers) :
       \E ch \in [Players -> Arms] :
          LET isRandom == distArg.kind = "random"
              cache == IF isRandom
                       THEN random_distances(distCache, nbPlayers, sample)
                       ELSE distCache
              dist == ResolveDistances(distArg, cache, nbPlayers)
          IN  /\ SampleIsUsed(nbPlayers, sample,
                              isRandom /\ CacheMiss(distCache, nbPlayers))
              /\ distCache' = cache
              /\ IF isRandom
                 THEN RandomDistancesCalled(nbPlayers, cache)
                 ELSE UNCHANGED <<rdDraws, rdFirst, rdLast>>
              /\ IF TruthValueError(distArg, npElementwise)
                 THEN /\ distances' = <<>>
                      /\ Commit(ch, [RoundState EXCEPT !.raised = TRUE])
                 ELSE /\ distances' = dist
                      /\ Commit(ch, closerUserGetsReward(RoundState, ch, dist))

Next == RoundOnlyUniq \/ RoundNoCollision \/ RoundShared \/ RoundCloser

Spec == Init /\ [][Next]_vars

(***************************************************************************)
(* The cache of random_distances: a simulation that uses                   *)
(* closerUserGetsReward with distances='random', in a process where        *)
(* random_distances is also called directly, for 1 .. MaxDirect players.   *)
(* The players have no handleCollision, which the cache does not look at.  *)
(***************************************************************************)
CallRandomDistances ==
    /\ model = "closerUserGetsReward" /\ distArg.kind = "random" /\ ~ raised
    /\ \E n \in 1 .. MaxDirect :
       \E sample \in RandomSamples(n) :
          LET cache == random_distances(distCache, n, sample)
          IN  /\ SampleIsUsed(n, sample, CacheMiss(distCache, n))
              /\ distCache' = cache
              /\ RandomDistancesCalled(n, cache)
    /\ UNCHANGED <<nbPlayers, hasHC, choices, rewards, pulls, collisions, calls,
                   drawn, raised, model, round, pre, distances, distArg,
                   npElementwise>>
    /\ UNCHANGED cdVars
    /\ UNCHANGED fnVars
    /\ UNCHANGED resVars

InitRD ==
    /\ Init
    /\ model = "closerUserGetsReward" /\ distArg.kind = "random"
    /\ \A i \in Players : ~ hasHC[i]

NextRD == RoundCloser \/ CallRandomDistances

SpecRD == InitRD /\ [][NextRD]_vars

----------------------------------------------------------------------------
(***************************************************************************)
(* The detectors.  The streams, the detector and its parameters are drawn  *)
(* initially; the caller then evaluates the detector for t = 0, 1, ... up  *)
(* to the horizon (for t in range(0, horizon + 1)).  Every action is one   *)
(* call of the detector on all_data, and the same call on all_data2.       *)
(***************************************************************************)
SampleValues == {0, 1, MaxSample}

Streams == UNION {[1 .. L -> SampleValues] : L \in 0 .. MaxHorizon}

\* streams of the same length that differ in at most one sample: any two
\* streams of the same length are linked by a chain of such pairs.  The
\* two calls of a step are the same function on the two streams, so a pair is
\* taken in one order only, the second stream holding the larger sample.
OneSampleApart(d1, d2) ==
    /\ Len(d1) = Len(d2)
    /\ Cardinality({k \in 1 .. Len(d1) : d1[k] # d2[k]}) <= 1
    /\ \A k \in 1 .. Len(d1) : d1[k] <= d2[k]

ThresholdOverrides == {None, Zero, One}

\* values of the argument epsilon of CUSUM and PHT
DetectorEpsilons == {<<1, 8>>, EPSILON}

DetectorCalls ==
    [name : {"Monitored"}, window_size : 1 .. MaxWindow, threshold : ThresholdOverrides]
        \cup [name : {"CUSUM", "PHT"}, epsilon : DetectorEpsilons, M : 1 .. MaxM,
              threshold : ThresholdOverrides]
        \cup [name : {"GaussianGLR", "BernoulliGLR"}, threshold : ThresholdOverrides]

InitCD ==
    /\ all_data \in Streams
    /\ all_data2 \in Streams
    /\ OneSampleApart(all_data, all_data2)
    /\ detParams \in DetectorCalls
    /\ det = detParams.name
    /\ IdleCD
    /\ nbPlayers = 1
    /\ hasHC = [i \in {0} |-> FALSE]
    /\ model = "noCollision"
    /\ distArg = NoDistArg
    /\ npElementwise = FALSE
    /\ IdleCM
    /\ IdleFn
    /\ IdleRes

\* the next value of t in the caller's loop
NextT(name) == det = name /\ detT < Len(all_data)

Returned(r1, r2) ==
    /\ detT' = detT + 1
    /\ detResult' = r1.result
    /\ detTrace' = r1.trace
    /\ detH' = r1.h
    /\ detError' = r1.raised
    /\ detResult2' = r2.result
    /\ detPrev' = detResult
    /\ UNCHANGED <<all_data, all_data2, det, detParams>>
    /\ UNCHANGED cmVars
    /\ UNCHANGED fnVars
    /\ UNCHANGED resVars

CallMonitored ==
    /\ NextT("Monitored")
    /\ Returned(Monitored(all_data, detT + 1, detParams.window_size, detParams.threshold),
                Monitored(all_data2, detT + 1, detParams.window_size, detParams.threshold))

CallCUSUM ==
    /\ NextT("CUSUM")
    /\ Returned(CUSUM(all_data, detT + 1, detParams.epsilon, detParams.M, detParams.threshold),
                CUSUM(all_data2, detT + 1, detParams.epsilon, detParams.M, detParams.threshold))

CallPHT ==
    /\ NextT("PHT")
    /\ Returned(PHT(all_data, detT + 1, detParams.epsilon, detParams.M, detParams.threshold),
                PHT(all_data2, detT + 1, detParams.epsilon, detParams.M, detParams.threshold))

CallGaussianGLR ==
    /\ NextT("GaussianGLR")
    /\ Returned(GaussianGLR(all_data, detT + 1, detParams.threshold),
                GaussianGLR(all_data2, detT + 1, detParams.threshold))

CallBernoulliGLR ==
    /\ NextT("BernoulliGLR")
    /\ Returned(BernoulliGLR(all_data, detT + 1, detParams.threshold),
                BernoulliGLR(all_data2, detT + 1, detParams.threshold))

NextCD == CallMonitored \/ CallCUSUM \/ CallPHT \/ CallGaussianGLR \/ CallBernoulliGLR

SpecCD == InitCD /\ [][NextCD]_vars

----------------------------------------------------------------------------
(***************************************************************************)
(* Functions and constructors called on their own: the threshold formulas, *)
(* the constructor of the policy UCBalpha and its indexes.  The call and   *)
(* its arguments are drawn initially; the action is the call.              *)
(***************************************************************************)
\* mutant: the assertion rejects alpha = 0 as well
UCBalpha__init___Strict(nbArms, alpha, lower, amplitude) ==
    IF RGt(alpha, Zero)
    THEN [raised |-> FALSE, nbArms |-> nbArms, alpha |-> alpha]
    ELSE [raised |-> TRUE, nbArms |-> nbArms, alpha |-> None]

\* UCBalpha.__init__: the base class is initialised, then
\* assert alpha >= 0, then self.alpha = alpha.  A constructor that raises
\* gives no object to its caller; the record shows the attributes set so far.
UCBalpha__init__(nbArms, alpha, lower, amplitude) ==
    IF RGe(alpha, Zero)
    THEN [raised |-> FALSE, nbArms |-> nbArms, alpha |-> alpha]
    ELSE [raised |-> TRUE, nbArms |-> nbArms, alpha |-> None]

\* the integer square root
Isqrt(n) == CHOOSE r \in 0 .. n : r * r <= n /\ (r + 1) * (r + 1) > n

\* np.sqrt, and math.sqrt where it does not raise, to two decimals: the
\* square root of a negative number is nan
RSqrt(x) ==
    IF IsNaN(x) \/ x = NegInf THEN NaN
    ELSE IF x = PosInf THEN PosInf
    ELSE IF x[1] < 0 THEN NaN
    ELSE Frac(Isqrt((x[1] * 10000) \div x[2]), 100)

\* the exploration bonus is sqrt(alpha * log(t) / (2 * pulls))
BonusSquared(self, arm) ==
    RDiv(RMul(self.alpha, Ln(Num(self.t))), Num(2 * self.pulls[arm]))

\* UCBalpha.computeIndex, with math.log and math.sqrt: math.log(0) and the
\* math.sqrt of a negative number raise ValueError
computeIndex(self, arm) ==
    IF self.pulls[arm] < 1 THEN [raised |-> FALSE, index |-> PosInf]
    ELSE IF self.t = 0 \/ RLt(BonusSquared(self, arm), Zero)
         THEN [raised |-> TRUE, index |-> None]
    ELSE [raised |-> FALSE,
          index |-> RAdd(Frac(self.rewards[arm], self.pulls[arm]),
                         RSqrt(BonusSquared(self, arm)))]

\* mutant: the arms without a pull keep the value of the formula
computeAllIndex_NoOverride(self) ==
    [arm \in DOMAIN self.pulls |->
        RAdd(RDiv(Num(self.rewards[arm]), Num(self.pulls[arm])),
             RSqrt(BonusSquared(self, arm)))]

\* UCBalpha.computeAllIndex, with np.log and np.sqrt on the whole arrays
\* (no exception: a division by zero gives inf or nan), then
\* indexes[self.pulls < 1] = float('+inf'); the value is self.index
computeAllIndex(self) ==
    [arm \in DOMAIN self.pulls |->
        IF self.pulls[arm] < 1 THEN PosInf
        ELSE RAdd(RDiv(Num(self.rewards[arm]), Num(self.pulls[arm])),
                  RSqrt(BonusSquared(self, arm)))]

\* values of the argument epsilon, 0 < epsilon < 1
Epsilons == {<<1, 8>>, EPSILON, <<3, 4>>}

\* values of the argument alpha, with the floats inf and nan
Alphas == {<<0 - 2, 1>>, <<0 - 1, 2>>, Zero, <<1, 2>>, <<4, 1>>, PosInf, NegInf, NaN}

\* the values of alpha the constructor accepts
AcceptedAlphas == {alpha \in Alphas : ~ UCBalpha__init__(NbArms, alpha, Zero, One).raised}

FunctionCalls ==
    [name : {"compute_h__CUSUM"}, horizon : 1 .. MaxHorizon, M : 1 .. MaxM,
     max_nb_random_events : 1 .. MaxEvents, epsilon : Epsilons]
        \cup {c \in [name : {"compute_c__GLR"}, t0 : 0 .. MaxHorizon,
                     t : 0 .. MaxHorizon, horizon : 1 .. MaxHorizon] : c.t0 <= c.t}
        \cup [name : {"UCBalpha"}, nbArms : 1 .. NbArms, alpha : Alphas]
        \cup [name : {"UCBalpha.computeIndex"}, alpha : AcceptedAlphas,
              t : 0 .. MaxHorizon, pulls : [Arms -> 0 .. MaxPulls], reward : {0, 1}]

InitFn ==
    /\ fnArgs \in FunctionCalls
    /\ fn = fnArgs.name
    /\ fnDone = FALSE
    /\ fnResult = <<>>
    /\ all_data = <<>>
    /\ all_data2 = <<>>
    /\ det = "none"
    /\ detParams = <<>>
    /\ IdleCD
    /\ nbPlayers = 1
    /\ hasHC = [i \in {0} |-> FALSE]
    /\ model = "noCollision"
    /\ distArg = NoDistArg
    /\ npElementwise = FALSE
    /\ IdleCM
    /\ IdleRes

FnReturned(r) ==
    /\ fnDone' = TRUE
    /\ fnResult' = r
    /\ UNCHANGED <<fn, fnArgs>>
    /\ UNCHANGED cmVars
    /\ UNCHANGED cdVars
    /\ UNCHANGED resVars

CallComputeH ==
    /\ fn = "compute_h__CUSUM" /\ ~ fnDone
    /\ FnReturned(compute_h__CUSUM(fnArgs.horizon, FALSE, fnArgs.M,
                                   fnArgs.max_nb_random_events, 1, fnArgs.epsilon))

CallComputeC ==
    /\ fn = "compute_c__GLR" /\ ~ fnDone
    /\ FnReturned(compute_c__GLR(fnArgs.t0, fnArgs.t, fnArgs.horizon))

NewUCBalpha ==
    /\ fn = "UCBalpha" /\ ~ fnDone
    /\ FnReturned(UCBalpha__init__(fnArgs.nbArms, fnArgs.alpha, Zero, One))

\* the policy with the given pull counts, every pull rewarded fnArgs.reward
PolicyState ==
    [alpha |-> fnArgs.alpha, t |-> fnArgs.t, pulls |-> fnArgs.pulls,
     rewards |-> [arm \in Arms |-> fnArgs.reward * fnArgs.pulls[arm]]]

\* computeIndex(arm) for every arm, and computeAllIndex(), on the same state
CallComputeIndex ==
    /\ fn = "UCBalpha.computeIndex" /\ ~ fnDone
    /\ FnReturned([one |-> [arm \in Arms |-> computeIndex(PolicyState, arm)],
                   all |-> computeAllIndex(PolicyState)])

NextFn == CallComputeH \/ CallComputeC \/ NewUCBalpha \/ CallComputeIndex

SpecFn == InitFn /\ [][NextFn]_vars

----------------------------------------------------------------------------
(***************************************************************************)
(* The result accumulators Result and ResultMultiPlayers.  The object is   *)
(* constructed initially; every action is one call of its method store.    *)
(* Arrays are functions on the indices from 0, as in numpy.                *)
(***************************************************************************)
\* the sum of f over the set S of indices
RECURSIVE SumOver(_, _)
SumOver(f, S) ==
    IF S = {} THEN 0
    ELSE LET x == CHOOSE y \in S : TRUE IN f[x] + SumOver(f, S \ {x})

\* int(a / b) for integers a >= 0 and b >= 1: the true division, truncated
PyIntDiv(a, b) == a \div b

\* np.zeros(n): an array of n zeros
Zeros(n) == [k \in 0 .. (n - 1) |-> 0]

Result__init__(nbArms, horizon, delta_t_save) ==
    LET duration == PyIntDiv(horizon, delta_t_save)
    IN  [delta_t_save |-> delta_t_save,
         choices |-> Zeros(duration),
         rewards |-> Zeros(duration),
         rewardsSquared |-> Zeros(duration),
         pulls |-> Zeros(nbArms)]

\* Result.store: self.choices[time] = choice raises IndexError, before
\* anything is written, when the index is not below the length of the arrays
Result_store(self, time, choice, reward) ==
    LET index == PyIntDiv(time, self.delta_t_save)
    IN  IF index \in DOMAIN self.choices
        THEN [self |-> [self EXCEPT !.choices[index] = choice,
                                    !.rewards[index] = reward,
                                    !.rewardsSquared[index] = reward * reward,
                                    !.pulls[choice] = @ + 1],
              index |-> index, raised |-> FALSE]
        ELSE [self |-> self, index |-> index, raised |-> TRUE]

ResultMultiPlayers__init__(nbArms, horizon, n) ==
    [choices |-> [i \in 0 .. (n - 1) |-> Zeros(horizon)],
     rewards |-> [i \in 0 .. (n - 1) |-> Zeros(horizon)],
     pulls |-> [i \in 0 .. (n - 1) |-> Zeros(nbArms)],
     allPulls |-> [i \in 0 .. (n - 1) |-> [a \in 0 .. (nbArms - 1) |-> Zeros(horizon)]],
     collisions |-> [a \in 0 .. (nbArms - 1) |-> Zeros(horizon)]]

\* mutant: the cumulative pulls are overwritten by the pulls of the step
ResultMultiPlayers_store_Overwrites(self, time, ch, rew, pul, col) ==
    [self |->
        [choices |-> [i \in DOMAIN self.choices |->
                         [self.choices[i] EXCEPT ![time] = ch[i]]],
         rewards |-> [i \in DOMAIN self.rewards |->
                         [self.rewards[i] EXCEPT ![time] = rew[i]]],
         pulls |-> pul,
         allPulls |-> [i \in DOMAIN self.allPulls |-> [a \in DOMAIN self.allPulls[i] |->
                         [self.allPulls[i][a] EXCEPT ![time] = pul[i][a]]]],
         collisions |-> [a \in DOMAIN self.collisions |->
                         [self.collisions[a] EXCEPT ![time] = col[a]]]],
     index |-> time, raised |-> FALSE]

\* ResultMultiPlayers.store, for a time of range(horizon)
ResultMultiPlayers_store(self, time, ch, rew, pul, col) ==
    [self |->
        [choices |-> [i \in DOMAIN self.choices |->
                         [self.choices[i] EXCEPT ![time] = ch[i]]],
         rewards |-> [i \in DOMAIN self.rewards |->
                         [self.rewards[i] EXCEPT ![time] = rew[i]]],
         pulls |-> [i \in DOMAIN self.pulls |-> [a \in DOMAIN self.pulls[i] |->
                         self.pulls[i][a] + pul[i][a]]],
         allPulls |-> [i \in DOMAIN self.allPulls |-> [a \in DOMAIN self.allPulls[i] |->
                         [self.allPulls[i][a] EXCEPT ![time] = pul[i][a]]]],
         collisions |-> [a \in DOMAIN self.collisions |->
                         [self.collisions[a] EXCEPT ![time] = col[a]]]],
     index |-> time, raised |-> FALSE]

\* the choices of a step: all the players on one arm, or spread over the arms
StoreChoices(n) ==
    {[i \in 0 .. (n - 1) |-> a] : a \in Arms} \cup {[i \in 0 .. (n - 1) |-> i % NbArms]}

\* the arrays of one time step, as a round of onlyUniqUserGetsReward on
\* zeroed arrays fills them
StepArrays(ch, time) ==
    [choices |-> ch,
     rewards |-> [i \in DOMAIN ch |->
                     IF occupancy(ch, ch[i]) = 1 THEN Draw(ch[i], time) ELSE 0],
     pulls |-> [i \in DOMAIN ch |-> [a \in Arms |->
                     IF a = ch[i] /\ occupancy(ch, a) = 1 THEN 1 ELSE 0]],
     collisions |-> [a \in Arms |->
                     IF occupancy(ch, a) > 1 THEN occupancy(ch, a) ELSE 0]]

ResultConstructions ==
    [name : {"Result"}, nbArms : {NbArms}, horizon : 1 .. MaxHorizon,
     delta_t_save : 1 .. MaxDelta]
        \cup [name : {"ResultMultiPlayers"}, nbArms : {NbArms},
              horizon : 1 .. MaxHorizon, nbPlayers : 1 .. MaxPlayers]

InitRes ==
    /\ resArgs \in ResultConstructions
    /\ res = IF resArgs.name = "Result"
             THEN Result__init__(resArgs.nbArms, resArgs.horizon, resArgs.delta_t_save)
             ELSE ResultMultiPlayers__init__(resArgs.nbArms, resArgs.horizon,
                                             resArgs.nbPlayers)
    /\ resLast = NoStore
    /\ resCount = Zeros(resArgs.horizon)
    /\ nbPlayers = IF resArgs.name = "Result" THEN 1 ELSE resArgs.nbPlayers
    /\ hasHC = [i \in 0 .. (nbPlayers - 1) |-> FALSE]
    /\ model = "noCollision"
    /\ distArg = NoDistArg
    /\ npElementwise = FALSE
    /\ IdleCM
    /\ all_data = <<>>
    /\ all_data2 = <<>>
    /\ det = "none"
    /\ detParams = <<>>
    /\ IdleCD
    /\ IdleFn

\* the simulation stores at most MaxStores steps, and ends with an exception
CanStore(name) ==
    /\ resArgs.name = name
    /\ ~ resLast.raised
    /\ SumOver(resCount, DOMAIN resCount) < MaxStores

Stored(time, r) ==
    /\ res' = r.self
    /\ resLast' = [time |-> time, index |-> r.index, raised |-> r.raised]
    /\ resCount' = [resCount EXCEPT ![time] = @ + 1]
    /\ UNCHANGED resArgs
    /\ UNCHANGED cmVars
    /\ UNCHANGED cdVars
    /\ UNCHANGED fnVars

StoreResult ==
    /\ CanStore("Result")
    /\ \E time \in 0 .. (resArgs.horizon - 1) :
       \E choice \in Arms :
          Stored(time, Result_store(res, time, choice, Draw(choice, time)))

StoreResultMultiPlayers ==
    /\ CanStore("ResultMultiPlayers")
    /\ \E time \in 0 .. (resArgs.horizon - 1) :
       \E ch \in StoreChoices(nbPlayers) :
          LET step == StepArrays(ch, time)
          IN  Stored(time, ResultMultiPlayers_store(res, time, step.choices, step.rewards,
                                                    step.pulls, step.collisions))

NextRes == StoreResult \/ StoreResultMultiPlayers

SpecRes == InitRes /\ [][NextRes]_vars

----------------------------------------------------------------------------
(***************************************************************************)
(* Properties of the collision models                                      *)
(***************************************************************************)
ExclusiveModels ==
    {"onlyUniqUserGetsReward", "rewardIsSharedUniformly", "closerUserGetsReward"}

\* what the last round added to pulls[i, arm] and to collisions[arm]
PullInc(i, arm) == pulls[i][arm] - pre.pulls[i][arm]
CollInc(arm) == collisions[arm] - pre.collisions[arm]

\* max(occupancy(arm) - 1, 0)
ExcessOccupants(arm) ==
    IF occupancy(choices, arm) > 1 THEN occupancy(choices, arm) - 1 ELSE 0

\* the callbacks player i received in the last round
CallsOf(i) == SelectSeq(calls, LAMBDA c : c[2] = i)

\* player i was rewarded in the last round: it drew its arm
Rewarded(i) == \E k \in 1 .. Len(calls) :
                  calls[k] = <<"getReward", i, choices[i], Draw(choices[i], round - 1)>>

\* C1: in a round of onlyUniqUserGetsReward, rewardIsSharedUniformly or
\* closerUserGetsReward that starts with collisions at zero, sum(collisions)
\* after the call equals the sum over the arms of max(occupancy(arm) - 1, 0).
C1_SumOfCollisionsIsExcess ==
    (round > 0 /\ model \in ExclusiveModels /\ \A a \in Arms : pre.collisions[a] = 0)
        => SumOver(collisions, Arms) = SumOver([a \in Arms |-> ExcessOccupants(a)], Arms)

\* C2: in a round of onlyUniqUserGetsReward, rewardIsSharedUniformly or
\* closerUserGetsReward, every arm is drawn at most once and at most one
\* entry of its column of pulls is incremented, by one.
C2_AtMostOneRewardPerArm ==
    (round > 0 /\ model \in ExclusiveModels)
        => \A a \in Arms :
              /\ drawn[a] <= 1
              /\ SumOver([i \in Players |-> PullInc(i, a)], Players) <= 1
              /\ \A i \in Players : PullInc(i, a) \in {0, 1}

\* a round in which two players share an arm and one of them is rewarded from it
C2_Witness ==
    /\ round > 0 /\ model = "rewardIsSharedUniformly"
    /\ \E a \in Arms : occupancy(choices, a) >= 2 /\ drawn[a] = 1

\* C3: under onlyUniqUserGetsReward, pulls[i, choices[i]] is incremented, by
\* exactly one, if and only if player i is alone on its arm; a player that
\* shares its arm gets no pull increment and no draw.
C3_PullIffSoleOccupant ==
    (round > 0 /\ model = "onlyUniqUserGetsReward")
        => \A i \in Players :
              IF occupancy(choices, choices[i]) = 1
              THEN PullInc(i, choices[i]) = 1
              ELSE /\ \A a \in Arms : PullInc(i, a) = 0
                   /\ drawn[choices[i]] = 0
                   /\ ~ Rewarded(i)

\* a round with a player alone on its arm and two players sharing the other
C3_Witness ==
    /\ round > 0 /\ model = "onlyUniqUserGetsReward"
    /\ \E i, j \in Players :
          /\ occupancy(choices, choices[i]) = 1 /\ PullInc(i, choices[i]) = 1
          /\ occupancy(choices, choices[j]) >= 2 /\ PullInc(j, choices[j]) = 0

\* C4: under rewardIsSharedUniformly and closerUserGetsReward, for every
\* occupied arm exactly one player gets a pull increment of one on that arm,
\* that player chose the arm, and no other entry of pulls changes.
C4_ExactlyOnePullPerOccupiedArm ==
    (round > 0 /\ model \in {"rewardIsSharedUniformly", "closerUserGetsReward"})
        => \A a \in Arms :
              IF occupancy(choices, a) >= 1
              THEN \E i \in players_who_chose_it(choices, a) :
                      /\ PullInc(i, a) = 1
                      /\ \A j \in Players \ {i} : PullInc(j, a) = 0
              ELSE \A j \in Players : PullInc(j, a) = 0

\* C5: under closerUserGetsReward the player rewarded on an occupied arm is
\* an occupant at the minimal distance: the occupant with the minimum
\* distance when it is unique, one of the tied occupants otherwise.
C5_CloserPlayerIsRewarded ==
    (round > 0 /\ model = "closerUserGetsReward")
        => \A a \in Occupied(choices) :
              \E i \in AtMinimum(distances, players_who_chose_it(choices, a)) :
                  /\ PullInc(i, a) = 1
                  /\ Rewarded(i)

\* C6: under noCollision every player draws its arm, receives getReward with
\* that reward and gets a pull increment of one on its arm, whatever the
\* occupancy, and collisions is left unchanged: it stays all zero.
C6_NoCollisionRewardsEveryPlayer ==
    model = "noCollision"
        => /\ \A a \in Arms : collisions[a] = 0
           /\ round > 0 =>
                 /\ \A i \in Players :
                       /\ rewards[i] = Draw(choices[i], round - 1)
                       /\ CallsOf(i) = << <<"getReward", i, choices[i], rewards[i]>> >>
                       /\ \A a \in Arms :
                             PullInc(i, a) = IF a = choices[i] THEN 1 ELSE 0
                 /\ \A a \in Arms : drawn[a] = occupancy(choices, a)
                 /\ ~ raised

\* a second noCollision round in which two players are on the same arm
C6_Witness ==
    /\ round > 1 /\ model = "noCollision"
    /\ \E i, j \in Players :
          i # j /\ choices[i] = choices[j] /\ PullInc(i, choices[i]) = 1
                /\ PullInc(j, choices[j]) = 1

\* C7: in onlyUniqUserGetsReward, rewardIsSharedUniformly and
\* closerUserGetsReward every player that is not rewarded from the arm it
\* chose is notified exactly once: by handleCollision(arm) and no getReward if
\* it has handleCollision, by getReward(arm, 0) otherwise; no error is raised.
C7_LosersAreNotifiedOnce ==
    (round > 0 /\ model \in ExclusiveModels)
        => /\ ~ raised
           /\ \A i \in Players :
                 PullInc(i, choices[i]) = 0
                    => CallsOf(i) = IF hasHC[i]
                                    THEN << <<"handleCollision", i, choices[i], 0>> >>
                                    ELSE << <<"getReward", i, choices[i], 0>> >>

\* the callbacks of the last round that name the arm
CallsOn(arm) == SelectSeq(calls, LAMBDA c : c[3] = arm)

\* C22: in every collision model an arm without occupant is skipped: it is
\* not drawn, collisions[arm] is unchanged, no entry of its column of pulls
\* changes and no callback names it.
C22_EmptyArmIsSkipped ==
    round > 0
        => \A a \in Arms :
              occupancy(choices, a) = 0
                 => /\ drawn[a] = 0
                    /\ CollInc(a) = 0
                    /\ \A i \in Players : PullInc(i, a) = 0
                    /\ CallsOn(a) = <<>>

\* a round that leaves an arm empty, an arm whose counters an earlier round
\* has set, while the players collide on another arm
C22_Witness ==
    /\ round > 1 /\ model \in ExclusiveModels /\ ~ raised
    /\ \E a, b \in Arms :
          /\ occupancy(choices, a) = 0 /\ pre.collisions[a] > 0
          /\ \E i \in Players : pre.pulls[i][a] > 0
          /\ CollInc(b) > 0 /\ drawn[b] = 1

\* C23: in a round of onlyUniqUserGetsReward, rewardIsSharedUniformly or
\* closerUserGetsReward, the pull increments and the collision increments of
\* the round add up to the number of players.
C23_PullsAndCollisionsAddUp ==
    (round > 0 /\ model \in ExclusiveModels)
        => SumOver([a \in Arms |-> SumOver([i \in Players |-> PullInc(i, a)], Players)
                                      + CollInc(a)], Arms) = nbPlayers

\* C24: in each of the four collision models every player receives exactly
\* one callback per round, getReward or handleCollision, and the arm passed
\* to it is the arm the player chose.
C24_OneCallbackPerPlayer ==
    round > 0
        => \A i \in Players :
              /\ Len(CallsOf(i)) = 1
              /\ CallsOf(i)[1][1] \in {"getReward", "handleCollision"}
              /\ CallsOf(i)[1][3] = choices[i]

\* C25: in onlyUniqUserGetsReward, rewardIsSharedUniformly and
\* closerUserGetsReward the rewards entry of a player that is not rewarded in
\* the round keeps the value it had before the call, also when the player is
\* given getReward(arm, 0).
C25_LosersKeepTheirReward ==
    (round > 0 /\ model \in ExclusiveModels)
        => \A i \in Players : ~ Rewarded(i) => rewards[i] = pre.rewards[i]

\* a player rewarded in an earlier round collides, is told so by
\* getReward(arm, 0) and keeps its earlier reward
C25_Witness ==
    /\ round > 1 /\ model = "onlyUniqUserGetsReward"
    /\ \E i \in Players :
          /\ ~ Rewarded(i) /\ ~ hasHC[i]
          /\ CallsOf(i) = << <<"getReward", i, choices[i], 0>> >>
          /\ pre.rewards[i] > 0 /\ rewards[i] = pre.rewards[i]

\* C16: closerUserGetsReward uses an explicit array of distances as given;
\* for 'uniform' or no argument it uses one value per player, k/(n+1) for the
\* k-th player of n, strictly inside (0,1) and strictly increasing; for
\* 'random' it uses the cached random vector for that number of players.
C16_DistancesAreResolvedInOrder ==
    (round > 0 /\ model = "closerUserGetsReward")
        => IF distArg.kind = "array" THEN distances = distArg.vec
           ELSE IF distArg.kind = "random" THEN distances = distCache[nbPlayers]
           ELSE /\ DOMAIN distances = Players
                /\ \A i \in Players :
                      /\ distances[i][1] * (nbPlayers + 1) = (i + 1) * distances[i][2]
                      /\ DistLess(<<0, 1>>, distances[i])
                      /\ DistLess(distances[i], <<1, 1>>)
                      /\ i > 0 => DistLess(distances[i - 1], distances[i])

\* the occupant of the arm with the smallest player index
FirstOccupant(arm) ==
    CHOOSE i \in players_who_chose_it(choices, arm) :
        \A j \in players_who_chose_it(choices, arm) : i <= j

C13_CacheState ==
    /\ \A n \in DOMAIN rdDraws : rdDraws[n] <= 1
    /\ rdLast.n > 0 =>
          /\ DOMAIN rdLast.vec = 0 .. (rdLast.n - 1)
          /\ rdLast.vec = rdFirst[rdLast.n]

\* what C13 says of a step: a cached vector stays in the cache, unchanged
C13_CacheStep ==
    \A n \in DOMAIN distCache : n \in DOMAIN distCache' /\ distCache'[n] = distCache[n]

\* C13: over any sequence of closerUserGetsReward rounds with
\* distances='random' and of calls to random_distances, a vector is drawn at
\* most once per number of players n, every later call for n returns the
\* vector of the first call, and no round writes to a cached vector.
C13_DistanceCacheIsStable == [] C13_CacheState /\ [][C13_CacheStep]_vars

\* a second round has used the cached vector, a non-zero one, while the cache
\* also holds the vector of another number of players
C13_Witness ==
    /\ model = "closerUserGetsReward" /\ distArg.kind = "random" /\ round >= 2
    /\ rdLast.n = nbPlayers /\ rdDraws[nbPlayers] = 1
    /\ distances = rdFirst[nbPlayers]
    /\ \E i \in Players : distances[i][1] > 0
    /\ \E n \in DOMAIN distCache : n # nbPlayers

----------------------------------------------------------------------------
(***************************************************************************)
(* Properties of the detectors                                             *)
(***************************************************************************)
Called == detT >= 0

\* the two streams agree on every index of [0, t)
AgreeBefore(t) == \A k \in 1 .. Min(t, Len(all_data)) : all_data[k] = all_data2[k]

\* all the samples of the stream are the same value, and there is one at least
ConstantStream == Len(all_data) >= 1 /\ \A k \in 1 .. Len(all_data) : all_data[k] = all_data[1]

\* C8: no detector looks ahead: on two streams of the same length that agree
\* on every index of [0, t), the decision at time t with the same parameters
\* is the same.
C8_NoLookAhead ==
    (Called /\ AgreeBefore(detT)) => detResult = detResult2

\* a detection at time t on streams that differ at an index >= t
C8_Witness ==
    /\ Called /\ AgreeBefore(detT) /\ all_data # all_data2
    /\ detT >= 2 /\ detResult /\ detParams.threshold = None

\* C9: CUSUM and PHT with the default threshold, on a stream of any length
\* >= 1 whose samples are all equal, keep g+ and g- at 0 throughout the scan
\* and return no detection, for every t in 0..horizon.
C9_ConstantStreamKeepsCusumAtZero ==
    (Called /\ det \in {"CUSUM", "PHT"} /\ detParams.threshold = None /\ ConstantStream)
        => /\ \A k \in 1 .. Len(detTrace) : detTrace[k] = <<Zero, Zero>>
           /\ detResult = FALSE

\* C10 as stated: on a stream whose samples are all identical, Monitored for
\* every window size w >= 1, GaussianGLR and BernoulliGLR, with the default
\* threshold, return no detection for every t in 0..horizon.
C10_ConstantStreamNeverDetected ==
    (Called /\ det \in {"Monitored", "GaussianGLR", "BernoulliGLR"}
            /\ detParams.threshold = None /\ ConstantStream)
        => detResult = FALSE

\* C10 amended: on a stream whose samples are all identical, Monitored for
\* every even window size, GaussianGLR and BernoulliGLR, with the default
\* threshold, return no detection for every t in 0..horizon.
C10_ConstantStreamEvenWindow ==
    (Called /\ det \in {"Monitored", "GaussianGLR", "BernoulliGLR"}
            /\ detParams.threshold = None /\ ConstantStream
            /\ (det = "Monitored" => detParams.window_size % 2 = 0))
        => detResult = FALSE

\* Monitored has compared the two halves of a full window of a constant,
\* non-zero stream
C10_Witness ==
    /\ Called /\ det = "Monitored" /\ detParams.threshold = None /\ ConstantStream
    /\ detParams.window_size % 2 = 0 /\ detT >= detParams.window_size
    /\ all_data[1] = MaxSample /\ detTrace # <<>> /\ detResult = FALSE

\* C11: Monitored returns no detection, without comparing anything, whenever
\* fewer than window_size samples are visible (t < w), whatever the samples
\* and the threshold.
C11_MonitoredShortOfWindow ==
    (Called /\ det = "Monitored" /\ detT < detParams.window_size)
        => (detResult = FALSE /\ detTrace = <<>>)

\* one sample short of the window, with samples that a zero threshold would
\* tell apart
C11_Witness ==
    /\ Called /\ det = "Monitored" /\ detT = detParams.window_size - 1
    /\ detT >= 2 /\ detParams.threshold = Zero
    /\ all_data[1] # all_data[2] /\ detResult = FALSE

\* C15: a Monitored detector whose window size is greater than or equal to
\* the horizon (the length of the stream) fails with an error on first use.
C15_WindowNotBelowHorizonFails ==
    (Called /\ det = "Monitored" /\ detParams.window_size >= Len(all_data))
        => detError

\* the visible samples of the indices a .. b of the stream, numbered from 1
SumSamples(a, b) == SumOver([k \in a .. b |-> all_data[k]], a .. b)

\* abs(diff) > b, for an override b and for the default
\* b = sqrt(w/2 * log(2 * K * T**2)), compared on the squares
StrictlyAbove(diff, w, T, b) ==
    IF b = None
    THEN 2000 * diff * diff > w * LnMilli(2 * NB_ARMS * T * T)
    ELSE Abs(diff) * b[2] > b[1]

\* C17: with at least w visible samples, Monitored takes the last w visible
\* samples, sums the first w//2 of them and the rest, and returns True
\* exactly when the absolute difference of the sums is strictly above the
\* threshold b; older samples have no effect.
C17_MonitoredSplitsLastWindow ==
    (Called /\ det = "Monitored" /\ detT >= detParams.window_size)
        => LET w == detParams.window_size
               first == detT - w + 1
               sum1 == SumSamples(first, first + (w \div 2) - 1)
               sum2 == SumSamples(first + (w \div 2), detT)
           IN  /\ detTrace = <<sum1, sum2>>
               /\ detResult = StrictlyAbove(sum1 - sum2, w, Len(all_data),
                                            detParams.threshold)
               /\ ~ detError

\* a detection on a window of odd size that leaves an older, non-zero sample out
C17_Witness ==
    /\ Called /\ det = "Monitored" /\ detParams.window_size = 3 /\ detT = 4
    /\ detParams.threshold = One /\ detResult /\ all_data[1] # 0

\* C18: in CUSUM, with the samples numbered from 1, g+ and g- are 0 over the
\* samples 1..M and every visible sample k > M, from sample M + 1 on, applies
\* the update with u0 the mean of the samples 1..M.
C18_CusumUpdatesFromSampleAfterM ==
    (Called /\ det = "CUSUM")
        => \A k \in 1 .. Len(detTrace) :
              detTrace[k] =
                  IF k <= detParams.M THEN <<Zero, Zero>>
                  ELSE GUpdate(detTrace[k - 1],
                               Mean(SubSeq(all_data, 1, detParams.M)),
                               all_data[k], detParams.epsilon)

\* C19: in PHT the k-th sample, numbered from 1, is compared with the mean of
\* the samples y_1..y_k, itself included, from the first sample on.
C19_PhtMeanIncludesTheSample ==
    (Called /\ det = "PHT")
        => \A k \in 1 .. Len(detTrace) :
              detTrace[k] =
                  GUpdate(IF k = 1 THEN <<Zero, Zero>> ELSE detTrace[k - 1],
                          Mean(SubSeq(all_data, 1, k)),
                          all_data[k], detParams.epsilon)

\* C20: without a threshold override, CUSUM and PHT use the threshold
\* compute_h__CUSUM gives for the horizon len(all_data), the M and the
\* epsilon the detector was called with.
C20_DefaultThresholdUsesCallersM ==
    (Called /\ det \in {"CUSUM", "PHT"} /\ detParams.threshold = None)
        => detH = compute_h__CUSUM(Len(all_data), FALSE, detParams.M,
                                   MAX_NB_RANDOM_EVENTS, 1, detParams.epsilon)

\* the statistic of the split point s at time t, from the samples of the
\* stream numbered from 1: the mean after the split is over s+2 .. t, the
\* mean up to the split over 1 .. s+1
SplitStatistic(name, s, t) ==
    RMul(Frac((s + 1) * (t - s), t + 1),
         kl(name, Mean(SubSeq(all_data, s + 2, t)), Mean(SubSeq(all_data, 1, s + 1))))

\* C21: GaussianGLR and BernoulliGLR return True at time t if and only if a
\* split point s of [0, t-2] has a statistic strictly greater than the
\* threshold h; a statistic equal to h does not trigger, and for t < 2 there
\* is no detection.
C21_GlrDetectsStrictlyAbove ==
    (Called /\ det \in {"GaussianGLR", "BernoulliGLR"})
        => detResult = (\E s \in 0 .. (detT - 2) : RGt(SplitStatistic(det, s, detT), detH))

\* C26: CUSUM and PHT are monotone in t on a fixed stream with fixed
\* parameters: once the detector has returned True at a time t, it returns
\* True at every later time up to the horizon.  Stated of two successive
\* calls of the caller's loop, at t - 1 and at t.
C26_CusumAndPhtAreMonotone ==
    (Called /\ det \in {"CUSUM", "PHT"} /\ detPrev) => detResult

\* a detection with the default threshold that an earlier sample than the
\* last visible one has triggered: the scan has stopped before the end
C26_Witness ==
    /\ Called /\ det \in {"CUSUM", "PHT"} /\ detParams.threshold = None
    /\ detPrev /\ detResult /\ detT = Len(all_data) /\ Len(detTrace) < detT

----------------------------------------------------------------------------
(***************************************************************************)
(* Properties of the result accumulators                                   *)
(***************************************************************************)
\* C28: for a Result built with a horizon >= 1 and an integer delta_t_save
\* >= 1, every store(time, choice, reward) with 0 <= time < horizon writes at
\* the index int(time / delta_t_save), a valid index of the arrays of length
\* int(horizon / delta_t_save).
C28_StoreIndexIsValid ==
    (resArgs.name = "Result" /\ resLast.time >= 0)
        => /\ resLast.index = resLast.time \div resArgs.delta_t_save
           /\ resLast.index >= 0
           /\ resLast.index < resArgs.horizon \div resArgs.delta_t_save
           /\ DOMAIN res.choices = 0 .. ((resArgs.horizon \div resArgs.delta_t_save) - 1)
           /\ DOMAIN res.rewards = DOMAIN res.choices
           /\ DOMAIN res.rewardsSquared = DOMAIN res.choices
           /\ ~ resLast.raised

\* the times a store call was made with
StoredTimes == {t \in DOMAIN resCount : resCount[t] > 0}

\* what C29 says of a state: after store calls at pairwise distinct times
\* the cumulative pulls are the sum of the per-step matrices of those times
C29_PullsState ==
    (resArgs.name = "ResultMultiPlayers" /\ \A t \in DOMAIN resCount : resCount[t] <= 1)
        => \A i \in DOMAIN res.pulls : \A a \in DOMAIN res.pulls[i] :
              res.pulls[i][a] = SumOver(res.allPulls[i][a], StoredTimes)

\* what C29 says of a step: a store at time t leaves the other columns of
\* choices, rewards, collisions and allPulls as they were
C29_StoreStep ==
    resArgs.name = "ResultMultiPlayers"
        => \A t \in DOMAIN resCount :
              t # resLast'.time
                 => /\ \A i \in DOMAIN res.choices :
                          /\ res'.choices[i][t] = res.choices[i][t]
                          /\ res'.rewards[i][t] = res.rewards[i][t]
                          /\ \A a \in DOMAIN res.allPulls[i] :
                                res'.allPulls[i][a][t] = res.allPulls[i][a][t]
                    /\ \A a \in DOMAIN res.collisions :
                          res'.collisions[a][t] = res.collisions[a][t]

\* C29: after any sequence of ResultMultiPlayers.store calls at pairwise
\* distinct times the cumulative pulls matrix is the sum over the stored
\* times of allPulls[:, :, time], and a store at time t changes only the
\* column t of choices, rewards, collisions and allPulls.
C29_PullsAreTheSumOfTheSteps == [] C29_PullsState /\ [][C29_StoreStep]_vars

\* two steps stored at distinct times, the later time first, with different
\* pulls for a player that has pulled in both
C29_Witness ==
    /\ resArgs.name = "ResultMultiPlayers"
    /\ \A t \in DOMAIN resCount : resCount[t] <= 1
    /\ \E t \in StoredTimes :
          /\ t > resLast.time
          /\ \E i \in DOMAIN res.pulls : \E a \in DOMAIN res.pulls[i] :
                /\ res.allPulls[i][a][t] = 1
                /\ res.allPulls[i][a][resLast.time] = 0
                /\ SumOver(res.pulls[i], DOMAIN res.pulls[i]) = 2

----------------------------------------------------------------------------
(***************************************************************************)
(* Properties of the threshold formulas and of the constructor             *)
(***************************************************************************)
\* C12: compute_h__CUSUM and compute_c__GLR never return nan or a negative
\* value for a valid input (horizon >= 1, M >= 1, 0 < epsilon < 1,
\* max_nb_random_events >= 1, t >= t0 >= 0).
C12_ThresholdsNeverNegative ==
    (fnDone /\ fn \in {"compute_h__CUSUM", "compute_c__GLR"})
        => (~ IsNaN(fnResult) /\ RGe(fnResult, Zero))

\* C14: constructing UCBalpha with a negative alpha fails with an assertion
\* error and leaves no object with alpha < 0; every alpha >= 0 is accepted
\* and stored unchanged.
C14_NegativeAlphaIsRejected ==
    (fnDone /\ fn = "UCBalpha")
        => /\ RLt(fnArgs.alpha, Zero) => fnResult.raised
           /\ RGe(fnArgs.alpha, Zero) =>
                  (~ fnResult.raised /\ fnResult.alpha = fnArgs.alpha)
           /\ ~ RLt(fnResult.alpha, Zero)

\* the constructor has accepted alpha = 0
C14_Witness ==
    /\ fnDone /\ fn = "UCBalpha" /\ fnArgs.alpha = Zero
    /\ ~ fnResult.raised /\ fnResult.alpha = Zero

\* computeIndex(arm) has returned +inf
IndexIsInfinite(arm) ==
    ~ fnResult.one[arm].raised /\ fnResult.one[arm].index = PosInf

====
